---- MODULE Spec2Model ----
(***************************************************************************)
(* Model of src/main.py: a fleet poller that runs process_device over the  *)
(* device inventory on a ThreadPoolExecutor, collects the futures with     *)
(* as_completed, saves the artifacts of the successes and renders a table. *)
(*                                                                         *)
(* Strings the code inspects (commands, prefixes) are taken apart into     *)
(* their characters by Chars, so that lower() and startswith() are         *)
(* computed on characters, not assumed.                                    *)
(* The external collaborators (napalm session, ntc_templates parser, the   *)
(* clock) are nondeterministic: every call may return or raise.            *)
(***************************************************************************)
EXTENDS Naturals, Integers, Sequences, FiniteSets, TLC

\* ---------------------------------------------------------------- bounds
\* Number of rows of devices.csv in the modelled runs.
NumDevices == 3
\* Longest commands.txt (in commands) in the modelled runs.
MaxCmds == 2
\* datetime.now() at second resolution takes the values 0..MaxClock.
MaxClock == 1
\* Collaborators raise for at most MaxFaulty devices of one run.
MaxFaulty == 1
\* Pool size. The source sets 10 (src/main.py:17); the model scales it down
\* so that a run with more devices than pool units stays explorable.
MAX_WORKERS == 2
\* Longest commands file (in lines) load_commands is applied to.
MaxLines == 3

\* ---------------------------------------------------------------- CONFIG
SKIP_CMDS == <<"show tech", "show tech-support", "show support">>

DRIVER_MAP ==
    [p \in {"cisco_ios", "cisco_iosxe", "cisco_iosxr", "cisco_nxos",
            "huawei_vrp", "huawei_ce", "huawei_yunshan", "aruba_aoscx"} |->
        CASE p = "cisco_ios"      -> "ios"
          [] p = "cisco_iosxe"    -> "ios"
          [] p = "cisco_iosxr"    -> "iosxr"
          [] p = "cisco_nxos"     -> "nxos"
          [] p = "huawei_vrp"     -> "huawei_vrp"
          [] p = "huawei_ce"      -> "huawei_vrp"
          [] p = "huawei_yunshan" -> "huawei_vrp"
          [] p = "aruba_aoscx"    -> "aoscx"]

TEXTFSM_PLATFORM_MAP ==
    [p \in {"cisco_ios", "cisco_iosxe", "cisco_iosxr", "cisco_nxos",
            "huawei_vrp", "huawei_ce", "huawei_yunshan", "aruba_aoscx"} |->
        CASE p = "cisco_ios"      -> "cisco_ios"
          [] p = "cisco_iosxe"    -> "cisco_ios"
          [] p = "cisco_iosxr"    -> "cisco_xr"
          [] p = "cisco_nxos"     -> "cisco_nxos"
          [] p = "huawei_vrp"     -> "huawei"
          [] p = "huawei_ce"      -> "huawei"
          [] p = "huawei_yunshan" -> "huawei"
          [] p = "aruba_aoscx"    -> "aruba_aoscx"]

\* ---------------------------------------------------------------- inputs
\* Rows of devices.csv the runs draw from. Only hostname and platform
\* decide anything in the code; ip/username/password are handed to the
\* session driver unread.
DeviceRows ==
    { [hostname |-> "r1", platform |-> "cisco_ios"],
      [hostname |-> "r2", platform |-> "juniper_junos"] }

\* Lines of commands.txt after load_commands.
CommandUniverse == { "show ver", "show ip", "Show Tech-Support" }

\* What conn.cli can return for a command: text the grammar parses into
\* records, text it parses into no record, text the parser rejects.
OutRecords == "Cisco IOS Software, Version 15.2"
OutNoMatch == ""
OutGarbled == "% Invalid input detected"
Outputs == { OutRecords, OutGarbled }

\* ---------------------------------------------------------------- UTIL
\* The characters of the strings of the model. TLC does not take a string
\* apart, so each string the code inspects is listed with its characters.
Chars(s) ==
    CASE s = "show tech" -> <<"s","h","o","w"," ","t","e","c","h">>
      [] s = "show tech-support" ->
            <<"s","h","o","w"," ","t","e","c","h","-","s","u","p","p","o","r","t">>
      [] s = "show support" -> <<"s","h","o","w"," ","s","u","p","p","o","r","t">>
      [] s = "show ver" -> <<"s","h","o","w"," ","v","e","r">>
      [] s = "show ip" -> <<"s","h","o","w"," ","i","p">>
      [] s = "Show Tech-Support" ->
            <<"S","h","o","w"," ","T","e","c","h","-","S","u","p","p","o","r","t">>

UpperCase == <<"A","B","C","D","E","F","G","H","I","J","K","L","M",
               "N","O","P","Q","R","S","T","U","V","W","X","Y","Z">>
LowerCase == <<"a","b","c","d","e","f","g","h","i","j","k","l","m",
               "n","o","p","q","r","s","t","u","v","w","x","y","z">>

\* str.lower() on one character.
lower_char(c) ==
    IF \E i \in 1..26 : UpperCase[i] = c
    THEN LowerCase[CHOOSE i \in 1..26 : UpperCase[i] = c]
    ELSE c

\* str.lower(), on the characters of a string
lower(cs) == [i \in 1..Len(cs) |-> lower_char(cs[i])]

\* str.startswith(prefix) for one prefix, on characters.
startswith1(cs, prefix) ==
    /\ Len(prefix) <= Len(cs)
    /\ \A i \in 1..Len(prefix) : cs[i] = prefix[i]

\* str.startswith(tuple of prefixes)
startswith(cs, prefixes) ==
    \E k \in 1..Len(prefixes) : startswith1(cs, Chars(prefixes[k]))

should_skip_nolower(cmd) == startswith(Chars(cmd), SKIP_CMDS)

should_skip(cmd) == startswith(lower(Chars(cmd)), SKIP_CMDS)

\* ---- load_commands, on the characters of the lines of the file
\* Lines a commands file is made of: a command, another, an empty line, a
\* line of blanks, a comment, an indented comment, a command with blanks
\* around it.
FileLines ==
    { <<"s","h","\n">>, <<"i","p","\n">>, <<"\n">>, <<" ","\n">>,
      <<"#","c","\n">>, <<" ","#","c","\n">>, <<" ","i","p"," ","\n">> }

\* The characters str.strip() removes.
Whitespace == {" ", "\t", "\n", "\r"}

\* str.strip(): what lies between the first and the last character that is
\* not whitespace.
strip(cs) ==
    LET keep == { i \in 1..Len(cs) : cs[i] \notin Whitespace }
    IN  IF keep = {} THEN <<>>
        ELSE SubSeq(cs, CHOOSE i \in keep : \A j \in keep : i <= j,
                        CHOOSE i \in keep : \A j \in keep : j <= i)

\* if line.strip() and not line.startswith("#")
KeepsLine(line) == strip(line) # <<>> /\ ~startswith1(line, <<"#">>)

\* [line.strip() for line in f if ...]
load_commands(lines) ==
    LET kept == SelectSeq(lines, KeepsLine)
    IN  [i \in 1..Len(kept) |-> strip(kept[i])]

\* What load_commands has returned: nothing yet, or the list.
NotLoaded == [done |-> FALSE, cmds |-> <<>>]
Loaded(cmds) == [done |-> TRUE, cmds |-> cmds]

\* ---- Python dict, insertion ordered: a sequence of [k, v] entries.
EmptyDict == <<>>
DictKeys(d) == { d[i].k : i \in 1..Len(d) }
DictGet(d, key) == d[CHOOSE i \in 1..Len(d) : d[i].k = key].v

\* d = {key: val} : rebinding the name instead of storing into the dict.
DictRebind(d, key, val) == <<[k |-> key, v |-> val]>>

\* d.setdefault(key, val) : a value already stored under key stays.
DictSetDefault(d, key, val) ==
    IF key \in DictKeys(d) THEN d ELSE Append(d, [k |-> key, v |-> val])

\* d[key] = val : replaces the value in place, or appends a new entry.
DictSet(d, key, val) ==
    IF key \in DictKeys(d)
    THEN [i \in 1..Len(d) |-> IF d[i].k = key THEN [k |-> key, v |-> val] ELSE d[i]]
    ELSE Append(d, [k |-> key, v |-> val])

\* ---- ntc_templates.parse.parse_output: a list of records, or a raise.
parse_output(tfsm_platform, command, data) ==
    CASE data = OutRecords -> [raised |-> FALSE, val |-> <<[version |-> "15.2"]>>]
      [] data = OutNoMatch -> [raised |-> FALSE, val |-> <<>>]
      [] OTHER             -> [raised |-> TRUE,  val |-> <<>>]

\* None is the empty list's twin under `if parsed:`; both are falsy. The
\* model keeps them apart in isNone.
PyNone == [isNone |-> TRUE, val |-> <<>>]
PyList(v) == [isNone |-> FALSE, val |-> v]
Truthy(x) == ~x.isNone /\ Len(x.val) > 0

\* The except clause hands back the error instead of None.
parse_with_textfsm_unguarded(platform, command, output) ==
    IF platform \notin DOMAIN TEXTFSM_PLATFORM_MAP
    THEN PyNone
    ELSE LET r == parse_output(TEXTFSM_PLATFORM_MAP[platform], command, output)
         IN  IF r.raised THEN PyList(<<[error |-> "parse error"]>>) ELSE PyList(r.val)

\* parse_with_textfsm: None without a grammar mapping or when the parser
\* raises, else the parser's records.
parse_with_textfsm(platform, command, output) ==
    IF platform \notin DOMAIN TEXTFSM_PLATFORM_MAP
    THEN PyNone
    ELSE LET r == parse_output(TEXTFSM_PLATFORM_MAP[platform], command, output)
         IN  IF r.raised THEN PyNone ELSE PyList(r.val)


\* ---- Artifact files: a path is the (directory, hostname, platform,
\* timestamp) the f-string is built from; a file maps to its content.
Path(dir, hostname, platform, ts) ==
    [dir |-> dir, hostname |-> hostname, platform |-> platform, ts |-> ts]
NoPath == Path("None", "", "", 0)
WriteFile(fs, path, content) ==
    [p \in (DOMAIN fs) \cup {path} |-> IF p = path THEN content ELSE fs[p]]

\* save_outputs on the file system fs at timestamp ts: the new file system
\* and the returned (raw_file, parsed_file or None).
save_outputs(fs, hostname, platform, raw, parsed, ts) ==
    LET raw_file    == Path("outputs/raw", hostname, platform, ts)
        parsed_file == Path("outputs/parsed", hostname, platform, ts)
        fs1         == WriteFile(fs, raw_file, raw)
    IN  [fs  |-> IF Len(parsed) > 0 THEN WriteFile(fs1, parsed_file, parsed) ELSE fs1,
         ret |-> <<raw_file, IF Len(parsed) > 0 THEN parsed_file ELSE NoPath>>]

\* ---------------------------------------------------------------- state
VARIABLES
    devices,        \* main: devices = load_devices(...), a sequence of rows
    commands,       \* main: commands = load_commands(...)
    wpc,            \* per device: where its process_device task stands
    idx,            \* per device: position of the for loop in commands
    raw_results,    \* per device: the local raw_results dict
    parsed_results, \* per device: the local parsed_results dict
    pending,        \* per device: what try/except decided, held during finally
    future,         \* per device: the state of its Future
    calls,          \* per device: the calls made on collaborators, in order
    mpc,            \* main thread: where main() stands
    nsub,           \* main thread: devices submitted so far
    early,          \* as_completed: futures already finished when it started
    waiterq,        \* as_completed: waiter.finished_futures, completion order
    completion,     \* finished tasks not yet consumed by the loop, oldest first
    collected,      \* device indices in the order the loop consumed them
    results,        \* main: the results list
    progress,       \* main: completed count of the progress task
    files,          \* the outputs/ directory
    saved,          \* the values save_outputs returned, in call order
    clock,          \* datetime.now(), in seconds
    table,          \* rows handed to the console, or <<>> before rendering
    file_lines,     \* load_commands: the lines of the file it reads
    loaded          \* load_commands: what it returned, once it has

vars == <<devices, commands, wpc, idx, raw_results, parsed_results, pending,
          future, calls, mpc, nsub, early, waiterq, completion, collected,
          results, progress, files, saved, clock, table, file_lines, loaded>>

mainVars == <<mpc, nsub, early, collected, results, progress, files, saved,
              clock, table>>
taskVars == <<idx, raw_results, parsed_results, pending, future, calls, completion>>

Dev == 1..NumDevices

\* All sequences over S of length at most n.
SeqsUpTo(S, n) == UNION { [1..k -> S] : k \in 0..n }

\* ---- values of a Future and of pending
NotDone == [kind |-> "notdone"]
\* return hostname, True, (platform, raw_results, parsed_results)
Success(hostname, platform, raw, parsed) ==
    [kind |-> "ret", hostname |-> hostname, success |-> TRUE,
     result |-> [platform |-> platform, raw |-> raw, parsed |-> parsed]]
\* return hostname, False, reason
Failure(hostname, reason) ==
    [kind |-> "ret", hostname |-> hostname, success |-> FALSE,
     result |-> [reason |-> reason]]
\* the task raised: Future.result() re-raises it
Raised(text) == [kind |-> "exc", text |-> text]

\* One call on a collaborator: its name, its argument (a command, or NoArg),
\* whether it returned, and the text it returned where the code reads it.
Call(op, arg, ok) == [op |-> op, arg |-> arg, ok |-> ok, out |-> "-"]
NoArg == ""
\* output = conn.cli([cmd])[cmd]
Returning(call, output) == [call EXCEPT !.out = output]

\* str(e) of the exception a collaborator raises.
ErrText(op) ==
    CASE op = "get_network_driver" -> "Cannot import driver"
      [] op = "driver"             -> "driver init error"
      [] op = "open"               -> "Cannot connect to device"
      [] op = "cli"                -> "Unable to execute command"
      [] OTHER                     -> "close error"

Init ==
    /\ devices \in [Dev -> DeviceRows]
    /\ commands \in SeqsUpTo(CommandUniverse, MaxCmds)
    /\ wpc = [d \in Dev |-> "new"]
    /\ idx = [d \in Dev |-> 0]
    /\ raw_results = [d \in Dev |-> EmptyDict]
    /\ parsed_results = [d \in Dev |-> EmptyDict]
    /\ pending = [d \in Dev |-> NotDone]
    /\ future = [d \in Dev |-> NotDone]
    /\ calls = [d \in Dev |-> <<>>]
    /\ mpc = "submit"
    /\ nsub = 0
    /\ early = {}
    /\ waiterq = <<>>
    /\ completion = <<>>
    /\ collected = <<>>
    /\ results = <<>>
    /\ progress = 0
    /\ files = <<>>
    /\ saved = <<>>
    /\ clock = 0
    /\ table = <<>>
    /\ file_lines = <<>>
    /\ loaded = NotLoaded


\* ---------------------------------------------------------------- WORKER
\* Devices for which a collaborator has raised; a call made for d may raise
\* if d is one of them or fewer than MaxFaulty devices are.
Faulty == { d \in Dev : \E i \in 1..Len(calls[d]) : ~calls[d][i].ok }
MayRaise(d) == d \in Faulty \/ Cardinality(Faulty) < MaxFaulty

\* Tasks occupying a pool thread: picked up and not yet returned.
Running == { d \in Dev : wpc[d] \in {"open", "loop", "close"} }

PoolUnbounded == TRUE

\* ThreadPoolExecutor(max_workers=MAX_WORKERS): a queued task is taken only
\* by one of at most MAX_WORKERS threads, each running one task at a time.
PoolHasIdleUnit == Cardinality(Running) < MAX_WORKERS

AnyPlatformSupported(platform) == TRUE

\* platform in DRIVER_MAP
PlatformSupported(platform) == platform \in DOMAIN DRIVER_MAP

\* The task of d ends with outcome out: its Future is set, and a waiter that
\* as_completed has installed is told.
Finish(d, out) ==
    /\ wpc' = [wpc EXCEPT ![d] = "done"]
    /\ future' = [future EXCEPT ![d] = out]
    /\ completion' = Append(completion, d)
    /\ waiterq' = IF mpc = "collect" THEN Append(waiterq, d) ELSE waiterq

\* The task of d goes on to position pc.
Goto(d, pc) ==
    /\ wpc' = [wpc EXCEPT ![d] = pc]
    /\ UNCHANGED <<future, completion, waiterq>>

\* The loop steps over the command at position i.
LoopFromNext(d, i, raw, parsed) ==
    /\ idx' = [idx EXCEPT ![d] = i + 1]
    /\ IF i + 1 <= Len(commands)
       THEN /\ Goto(d, "loop")
            /\ UNCHANGED pending
       ELSE /\ Goto(d, "close")
            /\ pending' = [pending EXCEPT ![d] =
                   Success(devices[d].hostname, devices[d].platform, raw, parsed)]

\* Where the for loop goes once position i is reached with the captures
\* raw and parsed: the next iteration, or the return after the loop.
LoopFrom(d, i, raw, parsed) ==
    /\ idx' = [idx EXCEPT ![d] = i]
    /\ IF i <= Len(commands)
       THEN /\ Goto(d, "loop")
            /\ UNCHANGED pending
       ELSE /\ Goto(d, "close")
            /\ pending' = [pending EXCEPT ![d] =
                   Success(devices[d].hostname, devices[d].platform, raw, parsed)]

\* The exception of a failed session call leaves process_device.
Uncaught(d, op) ==
    /\ Finish(d, Raised(ErrText(op)))
    /\ UNCHANGED <<idx, pending>>

\* The failed call ends the task with a Failure, and finally is missing.
ExceptNoClose(d, op) ==
    /\ Finish(d, Failure(devices[d].hostname, ErrText(op)))
    /\ UNCHANGED <<idx, pending>>

\* The failed call is swallowed and the loop goes on with the next command.
ExceptContinue(d, op) ==
    LoopFrom(d, idx[d] + 1, raw_results[d], parsed_results[d])

\* The failed call sends the task back to open the session again.
ExceptRetry(d, op) ==
    /\ Goto(d, "open")
    /\ UNCHANGED <<idx, pending>>

\* A failed open is swallowed and the loop runs on the unopened session.
ExceptOpenIgnored(d, op) ==
    IF op = "open"
    THEN LoopFrom(d, 1, raw_results[d], parsed_results[d])
    ELSE /\ Goto(d, "close")
         /\ pending' = [pending EXCEPT ![d] = Failure(devices[d].hostname, ErrText(op))]
         /\ UNCHANGED idx

\* except Exception as e: return hostname, False, str(e)  (then finally)
ExceptFrom(d, op) ==
    /\ Goto(d, "close")
    /\ pending' = [pending EXCEPT ![d] = Failure(devices[d].hostname, ErrText(op))]
    /\ UNCHANGED idx

\* One dict, shared by the tasks of all devices.
SharedCapture(caps, d, val) == [e \in Dev |-> val]

\* raw_results and parsed_results are locals of the call of process_device
\* for d: storing into one leaves those of the other tasks alone.
OwnCapture(caps, d, val) == [caps EXCEPT ![d] = val]

\* A pool thread takes the task of d from the work queue (FIFO) and runs
\* process_device up to the try: platform check, driver lookup, session
\* construction, the two empty dicts.
Start(d) ==
    /\ wpc[d] = "queued"
    /\ \A e \in Dev : e < d => wpc[e] \notin {"new", "queued"}
    /\ PoolHasIdleUnit
    /\ UNCHANGED <<file_lines, loaded, devices, commands, mainVars, idx, pending>>
    /\ IF ~PlatformSupported(devices[d].platform)
       THEN /\ Finish(d, Failure(devices[d].hostname, "Unsupported platform"))
            /\ UNCHANGED <<raw_results, parsed_results, calls>>
       ELSE \/ \* get_network_driver raises
               /\ MayRaise(d)
               /\ calls' = [calls EXCEPT ![d] =
                      Append(@, Call("get_network_driver", NoArg, FALSE))]
               /\ Finish(d, Raised(ErrText("get_network_driver")))
               /\ UNCHANGED <<raw_results, parsed_results>>
            \/ \* driver(...) raises
               /\ MayRaise(d)
               /\ calls' = [calls EXCEPT ![d] =
                      @ \o <<Call("get_network_driver", NoArg, TRUE),
                             Call("driver", NoArg, FALSE)>>]
               /\ Finish(d, Raised(ErrText("driver")))
               /\ UNCHANGED <<raw_results, parsed_results>>
            \/ \* conn is built
               /\ calls' = [calls EXCEPT ![d] =
                      @ \o <<Call("get_network_driver", NoArg, TRUE),
                             Call("driver", NoArg, TRUE)>>]
               /\ Goto(d, "open")
               /\ raw_results' = OwnCapture(raw_results, d, EmptyDict)
               /\ parsed_results' = OwnCapture(parsed_results, d, EmptyDict)

\* conn.open()
Open(d) ==
    /\ wpc[d] = "open"
    /\ UNCHANGED <<file_lines, loaded, devices, commands, mainVars, raw_results, parsed_results>>
    /\ \/ /\ calls' = [calls EXCEPT ![d] = Append(@, Call("open", NoArg, TRUE))]
          /\ LoopFrom(d, 1, raw_results[d], parsed_results[d])
       \/ /\ MayRaise(d)
          /\ calls' = [calls EXCEPT ![d] = Append(@, Call("open", NoArg, FALSE))]
          /\ ExceptFrom(d, "open")

\* if value: dict[key] = value
StoreIfTruthy(dict, key, value) ==
    IF Truthy(value) THEN DictSet(dict, key, value.val) ELSE dict

\* One iteration of `for cmd in commands`.
Iterate(d) ==
    /\ wpc[d] = "loop"
    /\ UNCHANGED <<file_lines, loaded, devices, commands, mainVars>>
    /\ LET cmd == commands[idx[d]] IN
       IF should_skip(cmd)
       THEN /\ calls' = [calls EXCEPT ![d] = Append(@, Call("console.log", cmd, TRUE))]
            /\ LoopFrom(d, idx[d] + 1, raw_results[d], parsed_results[d])
            /\ UNCHANGED <<raw_results, parsed_results>>
       ELSE \/ \* conn.cli([cmd]) raises
               /\ MayRaise(d)
               /\ calls' = [calls EXCEPT ![d] = Append(@, Call("cli", cmd, FALSE))]
               /\ ExceptFrom(d, "cli")
               /\ UNCHANGED <<raw_results, parsed_results>>
            \/ \E output \in Outputs :
                 LET raw    == DictSet(raw_results[d], cmd, output)
                     parsed == parse_with_textfsm(devices[d].platform, cmd, output)
                     prs    == StoreIfTruthy(parsed_results[d], cmd, parsed)
                 IN  /\ calls' = [calls EXCEPT ![d] =
                            Append(@, Returning(Call("cli", cmd, TRUE), output))]
                     /\ raw_results' = OwnCapture(raw_results, d, raw)
                     /\ parsed_results' = OwnCapture(parsed_results, d, prs)
                     /\ LoopFrom(d, idx[d] + 1, raw, prs)

\* What the task returns once the finally block has run conn.close(),
\* which returned (closed) or raised: the value try/except decided.
AfterCloseFailing(held, hostname, closed) ==
    IF closed THEN held ELSE Failure(hostname, ErrText("close"))

AfterClose(held, hostname, closed) == held

\* finally: try: conn.close() except Exception: pass
Close(d) ==
    /\ wpc[d] = "close"
    /\ UNCHANGED <<file_lines, loaded, devices, commands, mainVars, idx, raw_results, parsed_results,
                   pending>>
    /\ \E closed \in BOOLEAN :
         /\ closed \/ MayRaise(d)
         /\ calls' = [calls EXCEPT ![d] = Append(@, Call("close", NoArg, closed))]
         /\ Finish(d, AfterClose(pending[d], devices[d].hostname, closed))

\* ---------------------------------------------------------------- MAIN
\* executor.submit(process_device, d, commands), in inventory order.
Submit ==
    /\ mpc = "submit"
    /\ nsub < NumDevices
    /\ nsub' = nsub + 1
    /\ wpc' = [wpc EXCEPT ![nsub + 1] = "queued"]
    /\ UNCHANGED <<file_lines, loaded, devices, commands, taskVars, waiterq, mpc, early, collected,
                   results, progress, files, saved, clock, table>>

\* as_completed(futures) starts: the futures already finished are set
\* aside (they are yielded first, in no particular order) and a waiter is
\* installed on the others.
AsCompleted ==
    /\ mpc = "submit"
    /\ nsub = NumDevices
    /\ mpc' = "collect"
    /\ early' = { d \in Dev : wpc[d] = "done" }
    /\ UNCHANGED <<file_lines, loaded, devices, commands, taskVars, wpc, waiterq, nsub, collected,
                   results, progress, files, saved, clock, table>>

\* The status cell of a failure: f"FAIL: {result}"
FailStatus(reason) == <<"FAIL: ", reason>>
OkStatus == <<"OK">>

\* as_completed yields any finished future, in whatever order.
YieldsAny(d) ==
    \/ d \in early
    \/ \E i \in 1..Len(waiterq) : waiterq[i] = d

\* The future as_completed yields next.
Yields(d) ==
    \/ d \in early
    \/ early = {} /\ waiterq # <<>> /\ d = Head(waiterq)

\* One iteration of `for future in as_completed(futures)`.
Collect(d) ==
    /\ mpc = "collect"
    /\ Yields(d)
    /\ early' = early \ {d}
    /\ waiterq' = IF d \in early THEN waiterq ELSE Tail(waiterq)
    /\ completion' = SelectSeq(completion, LAMBDA x : x # d)
    /\ UNCHANGED <<file_lines, loaded, devices, commands, idx, raw_results, parsed_results, pending,
                   future, calls, wpc, nsub, table>>
    /\ LET f == future[d] IN
       IF f.kind = "exc"
       THEN \* future.result() re-raises: the exception leaves the loop
            /\ mpc' = "aborting"
            /\ UNCHANGED <<collected, results, progress, files, saved, clock>>
       ELSE /\ progress' = progress + 1
            /\ collected' = Append(collected, d)
            /\ mpc' = mpc
            /\ IF f.success
               THEN \E ts \in clock..MaxClock :
                      LET w == save_outputs(files, f.hostname, f.result.platform,
                                            f.result.raw, f.result.parsed, ts)
                      IN  /\ clock' = ts
                          /\ files' = w.fs
                          /\ saved' = Append(saved, [dev |-> d, ret |-> w.ret])
                          /\ results' = Append(results, <<f.hostname, OkStatus>>)
               ELSE /\ results' = Append(results, <<f.hostname, FailStatus(f.result.reason)>>)
                    /\ UNCHANGED <<files, saved, clock>>

\* The loop is exhausted, the pool shuts down, the table is printed.
Render ==
    /\ mpc = "collect"
    /\ Len(collected) = NumDevices
    /\ mpc' = "done"
    /\ table' = [i \in 1..Len(results) |->
                    [host   |-> results[i][1],
                     color  |-> IF results[i][2] = OkStatus THEN "green" ELSE "red",
                     status |-> results[i][2]]]
    /\ UNCHANGED <<file_lines, loaded, devices, commands, taskVars, wpc, waiterq, nsub, early,
                   collected, results, progress, files, saved, clock>>

\* The exception unwinds `with ThreadPoolExecutor`: shutdown(wait=True)
\* lets every submitted task finish, then main() dies with the exception.
Shutdown ==
    /\ mpc = "aborting"
    /\ \A d \in Dev : wpc[d] = "done"
    /\ mpc' = "crashed"
    /\ UNCHANGED <<file_lines, loaded, devices, commands, taskVars, wpc, waiterq, nsub, early,
                   collected, results, progress, files, saved, clock, table>>

Next ==
    \/ Submit
    \/ AsCompleted
    \/ \E d \in Dev : Start(d)
    \/ \E d \in Dev : Open(d)
    \/ \E d \in Dev : Iterate(d)
    \/ \E d \in Dev : Close(d)
    \/ \E d \in Dev : Collect(d)
    \/ Render
    \/ Shutdown

Spec == Init /\ [][Next]_vars

\* ---------------------------------------------------------------- LOADING
\* load_commands on its own: any file of at most MaxLines lines, nothing
\* scheduled.
LoadInit ==
    /\ file_lines \in SeqsUpTo(FileLines, MaxLines)
    /\ loaded = NotLoaded
    /\ devices = [d \in Dev |-> [hostname |-> "r1", platform |-> "cisco_ios"]]
    /\ commands = <<>>
    /\ wpc = [d \in Dev |-> "new"]
    /\ idx = [d \in Dev |-> 0]
    /\ raw_results = [d \in Dev |-> EmptyDict]
    /\ parsed_results = [d \in Dev |-> EmptyDict]
    /\ pending = [d \in Dev |-> NotDone]
    /\ future = [d \in Dev |-> NotDone]
    /\ calls = [d \in Dev |-> <<>>]
    /\ mpc = "load"
    /\ nsub = 0
    /\ early = {}
    /\ waiterq = <<>>
    /\ completion = <<>>
    /\ collected = <<>>
    /\ results = <<>>
    /\ progress = 0
    /\ files = <<>>
    /\ saved = <<>>
    /\ clock = 0
    /\ table = <<>>

\* commands = load_commands("commands.txt")
LoadCommands ==
    /\ mpc = "load"
    /\ ~loaded.done
    /\ loaded' = Loaded(load_commands(file_lines))
    /\ UNCHANGED <<file_lines, devices, commands, taskVars, wpc, waiterq, mainVars>>

LoadNext == LoadCommands

LoadSpec == LoadInit /\ [][LoadNext]_vars


\* ================================================================ claims
\* What the call log of a device says.
Called(d, op) == \E i \in 1..Len(calls[d]) : calls[d][i].op = op
Raises(d, op) == \E i \in 1..Len(calls[d]) : calls[d][i].op = op /\ ~calls[d][i].ok
EscapedFault(d) == Raises(d, "get_network_driver") \/ Raises(d, "driver")
RegistryPlatforms ==
    {"cisco_ios", "cisco_iosxe", "cisco_iosxr", "cisco_nxos",
     "huawei_vrp", "huawei_ce", "huawei_yunshan", "aruba_aoscx"}
IsSuccess(o) == o.kind = "ret" /\ o.success
IsFailure(o) == o.kind = "ret" /\ ~o.success
\* The lower-cased command begins with one of the unsafe prefixes.
Unsafe(cmd) ==
    LET cs == Chars(cmd)
        lc == [i \in 1..Len(cs) |-> lower_char(cs[i])]
    IN  \E p \in {"show tech", "show tech-support", "show support"} :
            /\ Len(Chars(p)) <= Len(lc)
            /\ SubSeq(lc, 1, Len(Chars(p))) = Chars(p)
\* The unsafe commands among those a command list can hold.
UnsafeCommands == { c \in CommandUniverse : Unsafe(c) }
\* The outcome the session calls of d call for, whatever close did.
PrimaryOutcome(d) ==
    IF Raises(d, "open") THEN Failure(devices[d].hostname, ErrText("open"))
    ELSE IF Raises(d, "cli") THEN Failure(devices[d].hostname, ErrText("cli"))
    ELSE Success(devices[d].hostname, devices[d].platform,
                 raw_results[d], parsed_results[d])

\* C1 (isolation): the Success/Failure outcome of a device is decided by its
\* own platform and its own session's open and command executions, whatever
\* faults the sessions of the other devices meet; a fault in a session open
\* or a command execution never aborts the run, no finished task is lost to
\* the collection loop, and a finished run reports every device once.
C1_Isolation ==
    /\ \A d \in Dev :
         wpc[d] = "done" /\ ~EscapedFault(d) =>
            /\ future[d].kind = "ret"
            /\ future[d].success =
                  (/\ devices[d].platform \in RegistryPlatforms
                   /\ ~Raises(d, "open")
                   /\ ~Raises(d, "cli"))
    /\ mpc \in {"aborting", "crashed"} => \E d \in Dev : EscapedFault(d)
    /\ (mpc = "collect" /\ Len(collected) < NumDevices /\ \A d \in Dev : wpc[d] = "done")
          => \E d \in Dev : Yields(d)
    /\ mpc = "done" =>
         /\ Len(table) = NumDevices
         /\ Len(collected) = NumDevices
         /\ { collected[i] : i \in 1..Len(collected) } = Dev
         /\ \A i \in 1..Len(table) :
              /\ table[i].host = devices[collected[i]].hostname
              /\ (table[i].status = OkStatus) = future[collected[i]].success

\* C1 witness: a finished run in which one device's open or command
\* execution raised and another device of the same run succeeded.
C1_Witness ==
    /\ mpc = "done"
    /\ \E d, e \in Dev :
         /\ d # e
         /\ Raises(d, "open") \/ Raises(d, "cli")
         /\ IsFailure(future[d])
         /\ IsSuccess(future[e])

\* C2 (no fault crosses the scheduler boundary), as the claim states it:
\* every finished task holds a returned outcome, a Failure if one of its
\* calls other than close raised, and the run is never aborted.
C2_NoFaultCrossesScheduler ==
    /\ \A d \in Dev :
         wpc[d] = "done" =>
            /\ future[d].kind = "ret"
            /\ (\E i \in 1..Len(calls[d]) :
                    ~calls[d][i].ok /\ calls[d][i].op # "close") => ~future[d].success
    /\ mpc \notin {"aborting", "crashed"}

\* C3 (concurrency bound): at most MAX_WORKERS tasks are between the start
\* of session opening and the end of close.
C3_ConcurrencyBound == Cardinality(Running) <= MAX_WORKERS

\* C3 witness: the pool is full and a further device is waiting.
C3_Witness ==
    /\ Cardinality(Running) = MAX_WORKERS
    /\ \E d \in Dev : wpc[d] = "queued"

\* C4 (unsupported platform): a device whose platform is not in the
\* registry makes no call on any collaborator and ends with
\* Failure("Unsupported platform").
C4_UnsupportedPlatform ==
    \A d \in Dev :
        devices[d].platform \notin RegistryPlatforms =>
            /\ calls[d] = <<>>
            /\ wpc[d] \in {"new", "queued", "done"}
            /\ wpc[d] = "done" =>
                  future[d] = Failure(devices[d].hostname, "Unsupported platform")

\* C4 witness: an unsupported device has finished in a run in which a
\* supported device opened a session.
C4_Witness ==
    \E d, e \in Dev :
        /\ devices[d].platform \notin RegistryPlatforms
        /\ wpc[d] = "done"
        /\ Called(e, "open")

\* C5 (command filter): an unsafe command is never handed to conn.cli and is
\* never a key of a Raw Capture (the local dict, the outcome, the raw file);
\* what the task logs as skipped is unsafe, and is logged in place of the
\* execution.
C5_SkippedNeverExecuted ==
    /\ \A d \in Dev :
         /\ \A i \in 1..Len(calls[d]) :
              /\ calls[d][i].op = "cli" => calls[d][i].arg \notin UnsafeCommands
              /\ calls[d][i].op = "console.log" => calls[d][i].arg \in UnsafeCommands
         /\ \A c \in DictKeys(raw_results[d]) : c \notin UnsafeCommands
         /\ IsSuccess(future[d]) => \A c \in DictKeys(future[d].result.raw) : c \notin UnsafeCommands
         /\ Cardinality({ i \in 1..Len(calls[d]) : calls[d][i].op \in {"cli", "console.log"} })
               <= Len(commands)
    /\ \A p \in DOMAIN files : \A c \in DictKeys(files[p]) : c \notin UnsafeCommands

\* C5 witness: a device succeeded on a list holding an unsafe command in
\* upper case and a command it executed.
C5_Witness ==
    \E d \in Dev :
        /\ IsSuccess(future[d])
        /\ \E i \in 1..Len(commands) : commands[i] = "Show Tech-Support"
        /\ Called(d, "console.log")
        /\ DictKeys(future[d].result.raw) # {}

\* C6 (subset invariant): the keys of Parsed Capture are keys of Raw Capture,
\* after every iteration and in the returned Success.
C6_ParsedSubsetOfRaw ==
    \A d \in Dev :
        /\ DictKeys(parsed_results[d]) \subseteq DictKeys(raw_results[d])
        /\ IsSuccess(pending[d]) =>
              DictKeys(pending[d].result.parsed) \subseteq DictKeys(pending[d].result.raw)
        /\ IsSuccess(future[d]) =>
              DictKeys(future[d].result.parsed) \subseteq DictKeys(future[d].result.raw)

\* C6 witness: a Success whose Parsed Capture holds one of two captured
\* commands.
C6_Witness ==
    \E d \in Dev :
        /\ IsSuccess(future[d])
        /\ DictKeys(future[d].result.parsed) # {}
        /\ DictKeys(future[d].result.parsed) # DictKeys(future[d].result.raw)

\* C7 (session closure): a finished task that attempted open has called
\* close, once, as its last call.
C7_SessionClosed ==
    \A d \in Dev :
        wpc[d] = "done" /\ Called(d, "open") =>
            /\ calls[d][Len(calls[d])].op = "close"
            /\ Cardinality({ i \in 1..Len(calls[d]) : calls[d][i].op = "close" }) = 1

\* C7 witness: a task whose command execution raised has closed its session
\* and delivered its outcome.
C7_Witness ==
    \E d \in Dev :
        /\ wpc[d] = "done"
        /\ Raises(d, "cli")
        /\ Called(d, "close")
        /\ future[d].kind = "ret"

\* C8 (close errors suppressed): the outcome of a task that reached close is
\* the one its open and command executions call for, with the captures
\* gathered, whether close returned or raised.
C8_CloseErrorSuppressed ==
    \A d \in Dev :
        wpc[d] = "done" /\ Called(d, "close") => future[d] = PrimaryOutcome(d)

\* C8 witness: close raised on a task that returned Success with a capture.
C8_Witness ==
    \E d \in Dev :
        /\ wpc[d] = "done"
        /\ Raises(d, "close")
        /\ IsSuccess(future[d])
        /\ future[d].result.raw # <<>>

\* C9 (execution error aborts the device): when a command execution raised,
\* the outcome is Failure with the error text and nothing else, no later
\* command was executed or skipped, and save_outputs was not called for the
\* device.
C9_ExecutionErrorAborts ==
    \A d \in Dev :
        Raises(d, "cli") =>
            /\ ~calls[d][Len(calls[d])].ok \/ calls[d][Len(calls[d])].op = "close"
            /\ \A i, j \in 1..Len(calls[d]) :
                 (i < j /\ calls[d][i].op = "cli" /\ ~calls[d][i].ok)
                    => calls[d][j].op = "close"
            /\ wpc[d] = "done" =>
                 /\ future[d] = Failure(devices[d].hostname, ErrText("cli"))
                 /\ DOMAIN future[d].result = {"reason"}
            /\ \A k \in 1..Len(saved) : saved[k].dev # d

\* C9 witness: the second executed command raised, after a first capture,
\* and the run finished.
C9_Witness ==
    \E d \in Dev :
        /\ mpc = "done"
        /\ Raises(d, "cli")
        /\ raw_results[d] # <<>>
        /\ IsFailure(future[d])

\* C10 (artifacts), as the claim states it: once the run is over there is one
\* raw file per Success device and one parsed file per Success device with a
\* non-empty Parsed Capture; save_outputs is not called for a Failure, and
\* returns no parsed path for an empty Parsed Capture.
C10_ArtifactsExactlyPerSuccess ==
    /\ mpc \in {"done", "crashed"} =>
         /\ Cardinality({ p \in DOMAIN files : p.dir = "outputs/raw" })
               = Cardinality({ d \in Dev : IsSuccess(future[d]) })
         /\ Cardinality({ p \in DOMAIN files : p.dir = "outputs/parsed" })
               = Cardinality({ d \in Dev : IsSuccess(future[d])
                                            /\ future[d].result.parsed # <<>> })
    /\ \A k \in 1..Len(saved) :
         /\ IsSuccess(future[saved[k].dev])
         /\ (saved[k].ret[2] = NoPath) = (future[saved[k].dev].result.parsed = <<>>)

\* C11 (exactly one outcome per device), as the claim states it: the run is
\* not left by an exception, and once it is over the table holds one row per
\* entry of the inventory, with the hostname of its device and a status that
\* is "OK" or "FAIL: <reason>".
C11_OneRowPerDevice ==
    /\ mpc # "aborting"
    /\ mpc \in {"done", "crashed"} =>
         /\ Len(table) = NumDevices
         /\ \E perm \in [1..NumDevices -> Dev] :
              /\ \A d \in Dev : \E i \in 1..NumDevices : perm[i] = d
              /\ \A i \in 1..NumDevices :
                   /\ table[i].host = devices[perm[i]].hostname
                   /\ \/ table[i].status = OkStatus
                      \/ table[i].status[1] = "FAIL: "

\* C12 (completion order), as the claim states it: the loop consumes the
\* finished tasks oldest first, so that the row (and the files) of a device
\* whose task finished earlier come before those of one that finished later.
C12_CompletionOrder ==
    [][\A d \in Dev :
          collected' = Append(collected, d) => d = Head(completion)]_vars

\* C12, amended: the order of results is the order of completion for the
\* tasks that finish after as_completed has started; the tasks already
\* finished by then come before all of those, in no particular order among
\* themselves.
C12_CompletionOrderAfterStart ==
    [][\A d \in Dev :
          (collected' = Append(collected, d) /\ d \notin early) =>
              /\ early = {}
              /\ d = Head(completion)
              /\ results'[Len(results')][1] = devices[d].hostname
              /\ Len(saved') > Len(saved) => saved'[Len(saved')].dev = d]_vars

\* C12 witness: the loop has consumed a future and two tasks that finished
\* after as_completed started are waiting, in the order they finished.
C12_Witness ==
    /\ mpc = "collect"
    /\ Len(collected) >= 1
    /\ early = {}
    /\ Len(waiterq) >= 2
    /\ waiterq = completion

\* How often conn.cli returned for command c on device d.
Executions(d, c) ==
    Cardinality({ i \in 1..Len(calls[d]) :
                     calls[d][i].op = "cli" /\ calls[d][i].arg = c /\ calls[d][i].ok })
\* The positions of the command list that hold a command to execute.
SafePositions == { i \in 1..Len(commands) : commands[i] \notin UnsafeCommands }
\* For every platform of the inventory and of the registry, text the parser
\* rejects, and any text on a platform without grammar mapping, parses to
\* None.
AbsentWhenUnparsable ==
    \A p \in RegistryPlatforms \cup { r.platform : r \in DeviceRows } :
        \A c \in CommandUniverse :
            /\ parse_with_textfsm(p, c, OutGarbled) = PyNone
            /\ p \notin RegistryPlatforms =>
                  \A o \in Outputs : parse_with_textfsm(p, c, o) = PyNone

\* C13 (parsing is best-effort): output the parser rejects yields an absent
\* parse result; the raw output is recorded all the same, no parsed entry is
\* stored for it, the remaining commands are executed, and the device still
\* ends with Success holding the captures.
C13_ParsingBestEffort ==
    /\ AbsentWhenUnparsable
    /\ \A d \in Dev : \A i \in 1..Len(raw_results[d]) :
         raw_results[d][i].v = OutGarbled =>
            /\ Executions(d, raw_results[d][i].k) = 1 =>
                  raw_results[d][i].k \notin DictKeys(parsed_results[d])
            /\ (wpc[d] = "done" /\ ~Raises(d, "cli")) =>
                  /\ future[d] = Success(devices[d].hostname, devices[d].platform,
                                         raw_results[d], parsed_results[d])
                  /\ Cardinality({ j \in 1..Len(calls[d]) : calls[d][j].op = "cli" })
                        = Cardinality(SafePositions)

\* C13 witness: a Success whose first command's output the parser rejected
\* and whose second command was executed and parsed.
C13_Witness ==
    \E d \in Dev :
        /\ IsSuccess(future[d])
        /\ Len(future[d].result.raw) = 2
        /\ future[d].result.raw[1].v = OutGarbled
        /\ future[d].result.raw[2].v = OutRecords
        /\ DictKeys(future[d].result.parsed) = { future[d].result.raw[2].k }

\* The commands handed to conn.cli for device d, in call order.
CliArgs(d) ==
    LET s == SelectSeq(calls[d], LAMBDA x : x.op = "cli")
    IN  [i \in 1..Len(s) |-> s[i].arg]
\* The command list without its unsafe commands.
SafeCommands == SelectSeq(commands, LAMBDA c : c \notin UnsafeCommands)

\* C14 (commands are sequential and in list order): the executions of a
\* device are a prefix of the non-skippable commands of the list, in list
\* order, and a command is taken up only when every command before it has
\* been executed or skipped.
C14_SequentialInListOrder ==
    \A d \in Dev :
        /\ Len(CliArgs(d)) <= Len(SafeCommands)
        /\ CliArgs(d) = SubSeq(SafeCommands, 1, Len(CliArgs(d)))
        /\ wpc[d] = "loop" =>
              Cardinality({ i \in 1..Len(calls[d]) :
                               calls[d][i].op \in {"cli", "console.log"} }) = idx[d] - 1

\* C14 witness: a device has executed two different commands, the second
\* command of the list after the first.
C14_Witness ==
    \E d \in Dev :
        /\ wpc[d] = "done"
        /\ commands = <<"show ip", "show ver">>
        /\ CliArgs(d) = commands

\* C15 (comment and blank lines are excluded), as the claim states it: every
\* command load_commands returns is non-empty and does not begin with "#",
\* and the commands are the lines kept, stripped, in file order.
C15_NoBlankNoComment ==
    loaded.done =>
        /\ \A i \in 1..Len(loaded.cmds) :
             /\ loaded.cmds[i] # <<>>
             /\ loaded.cmds[i][1] # "#"
        /\ \E pos \in [1..Len(loaded.cmds) -> 1..Len(file_lines)] :
             /\ \A i, j \in 1..Len(loaded.cmds) : i < j => pos[i] < pos[j]
             /\ \A i \in 1..Len(loaded.cmds) :
                  \E a, b \in 1..Len(file_lines[pos[i]]) :
                      loaded.cmds[i] = SubSeq(file_lines[pos[i]], a, b)

\* How often op occurs in the call log cs.
Count(cs, op) == Cardinality({ i \in 1..Len(cs) : cs[i].op = op })

\* C16 (no retry): a device is taken up by one task, which looks up the
\* driver, builds the session and attempts open at most once each; a task
\* that has delivered its outcome makes no further call and keeps its
\* outcome.
C16_NoRetry ==
    [][\A d \in Dev :
          /\ Count(calls'[d], "get_network_driver") <= 1
          /\ Count(calls'[d], "driver") <= 1
          /\ Count(calls'[d], "open") <= 1
          /\ wpc'[d] = "queued" => wpc[d] \in {"new", "queued"}
          /\ wpc[d] = "done" =>
                /\ wpc'[d] = "done"
                /\ calls'[d] = calls[d]
                /\ future'[d] = future[d]]_vars

\* C16 witness: the run is over, and a device whose open raised has one open
\* attempt in its log and its Failure in the table.
C16_Witness ==
    /\ mpc = "done"
    /\ \E d \in Dev :
         /\ Raises(d, "open")
         /\ Count(calls[d], "open") = 1
         /\ IsFailure(future[d])

\* C17 (race-free aggregation): results, the files and the record of the
\* save_outputs calls change only in steps of the main thread, one row and at
\* most one save_outputs call at a time, while no task moves; the captures of
\* a device change only in a step of that device's own task, and no step
\* changes the captures or the call log of two devices.
C17_RaceFreeAggregation ==
    [][/\ (results' # results \/ files' # files \/ saved' # saved) =>
             /\ wpc' = wpc /\ calls' = calls /\ future' = future
             /\ raw_results' = raw_results /\ parsed_results' = parsed_results
             /\ Len(results') = Len(results) + 1
             /\ SubSeq(results', 1, Len(results)) = results
             /\ Len(saved') <= Len(saved) + 1
       /\ \A d \in Dev :
             (raw_results'[d] # raw_results[d] \/ parsed_results'[d] # parsed_results[d]) =>
                 /\ wpc[d] \in {"queued", "loop"}
                 /\ calls'[d] # calls[d]
                 /\ \A e \in Dev \ {d} :
                       /\ calls'[e] = calls[e]
                       /\ raw_results'[e] = raw_results[e]
                       /\ parsed_results'[e] = parsed_results[e]]_vars

\* C17 witness: the main thread has saved and reported one device while a
\* second task has finished and waits to be consumed and a third is in its
\* loop with a capture.
C17_Witness ==
    /\ Len(results) >= 1
    /\ Len(saved) >= 1
    /\ Len(completion) >= 1
    /\ \E d \in Dev : wpc[d] = "loop" /\ raw_results[d] # <<>>

\* C18 (parsed/raw consistency), as the claim states it: in every Success,
\* each entry of the Parsed Capture is the parser's result on the raw text
\* the Raw Capture holds for the same command.
C18_ParsedMatchesRaw ==
    \A d \in Dev :
        IsSuccess(future[d]) =>
            \A c \in DictKeys(future[d].result.parsed) :
                PyList(DictGet(future[d].result.parsed, c))
                    = parse_with_textfsm(future[d].result.platform, c,
                                         DictGet(future[d].result.raw, c))

\* The text the session returned for the last execution of c on device d.
LastOutput(d, c) ==
    LET at == { i \in 1..Len(calls[d]) :
                   calls[d][i].op = "cli" /\ calls[d][i].arg = c /\ calls[d][i].ok }
    IN  calls[d][CHOOSE i \in at : \A j \in at : j <= i].out

\* C19 (complete capture on success): the keys of the Raw Capture of a
\* Success are the commands of the list that are not unsafe, each in the
\* order of its first execution, and the value under a command is the text
\* the session returned for the last execution of that command.
C19_CompleteCapture ==
    \A d \in Dev :
        IsSuccess(future[d]) =>
            LET raw == future[d].result.raw IN
            /\ DictKeys(raw) = { commands[i] : i \in SafePositions }
            /\ Cardinality(DictKeys(raw)) = Len(raw)
            /\ \A i \in 1..Len(raw) : raw[i].v = LastOutput(d, raw[i].k)

\* C19 witness: a Success on a list that repeats a command, whose two
\* executions returned different texts.
C19_Witness ==
    \E d \in Dev :
        /\ IsSuccess(future[d])
        /\ commands = <<"show ver", "show ver">>
        /\ \E i, j \in 1..Len(calls[d]) :
             /\ i < j
             /\ calls[d][i].op = "cli" /\ calls[d][j].op = "cli"
             /\ calls[d][i].out # calls[d][j].out

\* C20 (no execution without an open session): every command execution of
\* a device comes after an open that returned and before close; when open
\* raised, no command is executed or skipped and the outcome is Failure with
\* the text of the session error.
C20_NoExecutionWithoutSession ==
    \A d \in Dev :
        /\ \A i \in 1..Len(calls[d]) :
             calls[d][i].op = "cli" =>
                /\ \E j \in 1..(i - 1) : calls[d][j].op = "open" /\ calls[d][j].ok
                /\ \A k \in 1..(i - 1) : calls[d][k].op # "close"
        /\ Raises(d, "open") =>
             /\ Count(calls[d], "cli") = 0
             /\ Count(calls[d], "console.log") = 0
             /\ raw_results[d] = EmptyDict
             /\ wpc[d] = "done" =>
                   future[d] = Failure(devices[d].hostname, ErrText("open"))

\* C20 witness: open raised for a device that has delivered its Failure, on
\* a command list another device has executed a command of.
C20_Witness ==
    \E d, e \in Dev :
        /\ Raises(d, "open")
        /\ wpc[d] = "done"
        /\ IsFailure(future[d])
        /\ Count(calls[e], "cli") >= 1

====
